---- MODULE Spec2Model ----
(***************************************************************************)
(* Model of vector.h: a resizable sequence container whose storage is a    *)
(* circular queue (__elements__, __capacity__, __size__, __beginning__,     *)
(* __end__), with a growth quantum __increment__ and a shrink floor         *)
(* __reserved__.  Every member function is an operator on a vector record;  *)
(* the actions apply them to the vector held in the variables.  The         *)
(* allocator's answer (ok) and the indeterminate contents of a freshly      *)
(* allocated buffer (fresh) are inputs of every operation that allocates.   *)
(* Each vector record also carries the free store as the object sees it    *)
(* (heap), updated where the code allocates and deletes.                    *)
(***************************************************************************)
EXTENDS Integers, Sequences, FiniteSets, TLC

\* bounds of the model
MaxCapacity == 4
MaxValue == 2
MaxIncrement == 2
MaxPushed == 7

Values == 1..MaxValue
Slots == 0..(MaxCapacity - 1)

VARIABLES elements, capacity, increment, reserved, size, beginning, end,
          heap, op, floor, dst, net, queue, lastErrorCode, batchOk, promise, past

vars == <<elements, capacity, increment, reserved, size, beginning, end,
          heap, op, floor, dst, net, queue, lastErrorCode, batchOk, promise, past>>

\* C's % operator (truncating); the divisor is a capacity
CMod(a, b) == IF a >= 0 THEN a % b ELSE 0 - ((0 - a) % b)

\* the free store as the object sees it: what __elements__ points at (nothing,
\* a buffer, or a buffer that was deleted), how many buffers the object has
\* allocated and not deleted, and whether it has deleted a buffer twice
NoBuffer == [hold |-> "NULL", live |-> 0, twice |-> FALSE]

\* the member initialisers: no buffer, nothing reserved, __end__ = -1
EmptyVector(inc) ==
  [elements |-> <<>>, capacity |-> 0, increment |-> inc, reserved |-> 0,
   size |-> 0, beginning |-> 0, end |-> -1, heap |-> NoBuffer]

\* vector (int increment = 1)
Construct(inc) == EmptyVector(IF inc < 1 THEN 1 ELSE inc)

\* the vector held in the variables
Self ==
  [elements |-> elements, capacity |-> capacity, increment |-> increment,
   reserved |-> reserved, size |-> size, beginning |-> beginning, end |-> end,
   heap |-> heap]

\* at (position) / operator [] (position)
at(v, position) == v.elements[CMod(v.beginning + position, v.capacity)]

\* the logical contents at(0), ..., at(size - 1), as a sequence
Contents(v) == [i \in 1..v.size |-> at(v, i - 1)]

\* the copy loop taking the old buffer slot by slot from 0, not from __beginning__
copyLoop_FromSlotZero(v, n, del, free, i, e, newElements) ==
  [j \in DOMAIN newElements |-> IF j < n THEN v.elements[j] ELSE newElements[j]]

\* the copy loop of __changeCapacity__: i runs over the new buffer, e over the old ring
RECURSIVE copyLoop(_, _, _, _, _, _, _)
copyLoop(v, n, del, free, i, e, newElements) ==
  IF i >= n THEN newElements
  ELSE LET e1 == IF i = del THEN CMod(e + 1, v.capacity) ELSE e
       IN IF i = free
          THEN copyLoop(v, n, del, free, i + 1, e1, newElements)
          ELSE copyLoop(v, n, del, free, i + 1, CMod(e1 + 1, v.capacity),
                        [newElements EXCEPT ![i] = v.elements[e1]])

\* what a member function hands back: the vector afterwards, the value it
\* returns, and the number of elements it asked the allocator for (0: it did
\* not allocate)
Result(v, ret, asked) == [v |-> v, ret |-> ret, asked |-> asked]

\* if (__elements__ != NULL) delete [] __elements__;
deleteElements(h) ==
  IF h.hold = "NULL" THEN h
  ELSE IF h.hold = "buffer" THEN [h EXCEPT !.hold = "deleted", !.live = @ - 1]
  ELSE [h EXCEPT !.twice = TRUE]

\* newElements = new (std::nothrow) vectorType [newCapacity], when it succeeds
newElements(h) == [h EXCEPT !.live = @ + 1]

\* ~vector ()
destructor(v) == [v EXCEPT !.heap = deleteElements(@)]

\* __changeCapacity__ releasing the old buffer before it asks for the new one
changeCapacity_FreesFirst(v, newCapacity, del, free, ok, fresh) ==
  LET gone == [v EXCEPT !.elements = <<>>, !.capacity = 0, !.size = 0,
                        !.beginning = 0, !.end = -1,
                        !.heap = [deleteElements(@) EXCEPT !.hold = "NULL"]]
  IN IF newCapacity = 0 THEN Result(gone, TRUE, 0)
     ELSE IF ~ok THEN Result(gone, FALSE, newCapacity)
     ELSE LET s1 == IF del >= 0 THEN v.size - 1 ELSE v.size
              s2 == IF free >= 0 THEN s1 + 1 ELSE s1
              n  == IF s2 > newCapacity THEN newCapacity ELSE s2
              blank == [i \in 0..(newCapacity - 1) |-> fresh[i]]
          IN Result([v EXCEPT !.elements = copyLoop(v, n, del, free, 0, v.beginning, blank),
                              !.capacity = newCapacity,
                              !.size = n,
                              !.beginning = 0,
                              !.end = n - 1,
                              !.heap = [newElements(gone.heap) EXCEPT !.hold = "buffer"]],
                    TRUE, newCapacity)

\* __changeCapacity__ that does not count the free slot into __size__
changeCapacity_KeepsCount(v, newCapacity, del, free, ok, fresh) ==
  IF newCapacity = 0
  THEN Result([v EXCEPT !.elements = <<>>, !.capacity = 0, !.size = 0,
                        !.beginning = 0, !.end = -1,
                        !.heap = [deleteElements(@) EXCEPT !.hold = "NULL"]], TRUE, 0)
  ELSE IF ~ok
  THEN Result(v, FALSE, newCapacity)
  ELSE LET s2 == IF del >= 0 THEN v.size - 1 ELSE v.size
           n  == IF s2 > newCapacity THEN newCapacity ELSE s2
           blank == [i \in 0..(newCapacity - 1) |-> fresh[i]]
       IN Result([v EXCEPT !.elements = copyLoop(v, n, del, free, 0, v.beginning, blank),
                           !.capacity = newCapacity,
                           !.size = n,
                           !.beginning = 0,
                           !.end = n - 1,
                           !.heap = [deleteElements(newElements(@)) EXCEPT !.hold = "buffer"]],
                 TRUE, newCapacity)

\* __changeCapacity__ that replaces the buffer without deleting the old one
changeCapacity_KeepsOldBuffer(v, newCapacity, del, free, ok, fresh) ==
  IF newCapacity = 0
  THEN Result([v EXCEPT !.elements = <<>>, !.capacity = 0, !.size = 0,
                        !.beginning = 0, !.end = -1,
                        !.heap = [deleteElements(@) EXCEPT !.hold = "NULL"]], TRUE, 0)
  ELSE IF ~ok
  THEN Result(v, FALSE, newCapacity)
  ELSE LET s1 == IF del >= 0 THEN v.size - 1 ELSE v.size
           s2 == IF free >= 0 THEN s1 + 1 ELSE s1
           n  == IF s2 > newCapacity THEN newCapacity ELSE s2
           blank == [i \in 0..(newCapacity - 1) |-> fresh[i]]
       IN Result([v EXCEPT !.elements = copyLoop(v, n, del, free, 0, v.beginning, blank),
                           !.capacity = newCapacity,
                           !.size = n,
                           !.beginning = 0,
                           !.end = n - 1,
                           !.heap = [newElements(@) EXCEPT !.hold = "buffer"]],
                 TRUE, newCapacity)

\* __changeCapacity__ (newCapacity, deleteElementAtPosition, leaveFreeSlotAtPosition)
changeCapacity(v, newCapacity, del, free, ok, fresh) ==
  IF newCapacity = 0
  THEN Result([v EXCEPT !.elements = <<>>, !.capacity = 0, !.size = 0,
                        !.beginning = 0, !.end = -1,
                        !.heap = [deleteElements(@) EXCEPT !.hold = "NULL"]], TRUE, 0)
  ELSE IF ~ok
  THEN Result(v, FALSE, newCapacity)
  ELSE LET s1 == IF del >= 0 THEN v.size - 1 ELSE v.size
           s2 == IF free >= 0 THEN s1 + 1 ELSE s1
           n  == IF s2 > newCapacity THEN newCapacity ELSE s2
           blank == [i \in 0..(newCapacity - 1) |-> fresh[i]]
       IN Result([v EXCEPT !.elements = copyLoop(v, n, del, free, 0, v.beginning, blank),
                           !.capacity = newCapacity,
                           !.size = n,
                           !.beginning = 0,
                           !.end = n - 1,
                           !.heap = [deleteElements(newElements(@)) EXCEPT !.hold = "buffer"]],
                 TRUE, newCapacity)

\* reserve recording the floor before it knows that the allocation succeeded
reserve_RecordsFirst(v, newCapacity, ok, fresh) ==
  IF newCapacity < v.size THEN Result(v, FALSE, 0)
  ELSE IF newCapacity > v.size
  THEN LET r == changeCapacity([v EXCEPT !.reserved = newCapacity],
                               newCapacity, -1, -1, ok, fresh)
       IN Result(r.v, r.ret, r.asked)
  ELSE Result(v, TRUE, 0)

\* reserve (newCapacity)
reserve(v, newCapacity, ok, fresh) ==
  IF newCapacity < v.size THEN Result(v, FALSE, 0)
  ELSE IF newCapacity > v.size
  THEN LET r == changeCapacity(v, newCapacity, -1, -1, ok, fresh)
       IN IF r.ret
          THEN Result([r.v EXCEPT !.reserved = newCapacity], TRUE, r.asked)
          ELSE Result(r.v, FALSE, r.asked)
  ELSE Result(v, TRUE, 0)

\* clear leaving the reservation floor in place
clear_KeepsFloor(v) ==
  IF v.capacity # 0 THEN changeCapacity(v, 0, -1, -1, TRUE, <<>>).v ELSE v

\* clear ()
clear(v) ==
  LET w == [v EXCEPT !.reserved = 0]
  IN IF w.capacity # 0 THEN changeCapacity(w, 0, -1, -1, TRUE, <<>>).v ELSE w

\* push_back making room for one element only when the vector is full
push_back_GrowsByOne(v, element, ok, fresh) ==
  LET g == IF v.size = v.capacity
           THEN changeCapacity(v, v.capacity + 1, -1, -1, ok, fresh)
           ELSE Result(v, TRUE, 0)
  IN IF ~g.ret THEN Result(g.v, FALSE, g.asked)
     ELSE LET w == g.v
              e == CMod(w.end + 1, w.capacity)
              s == w.size + 1
          IN Result([w EXCEPT !.end = e,
                              !.elements = [w.elements EXCEPT ![e] = element],
                              !.size = s,
                              !.beginning = IF s = 1 THEN e ELSE w.beginning],
                    TRUE, g.asked)

\* push_back (element)
push_back(v, element, ok, fresh) ==
  LET g == IF v.size = v.capacity
           THEN changeCapacity(v, v.capacity + v.increment, -1, -1, ok, fresh)
           ELSE Result(v, TRUE, 0)
  IN IF ~g.ret THEN Result(g.v, FALSE, g.asked)
     ELSE LET w == g.v
              e == CMod(w.end + 1, w.capacity)
              s == w.size + 1
          IN Result([w EXCEPT !.end = e,
                              !.elements = [w.elements EXCEPT ![e] = element],
                              !.size = s,
                              !.beginning = IF s = 1 THEN e ELSE w.beginning],
                    TRUE, g.asked)

\* push_front storing the element before it moves __beginning__
push_front_StoresFirst(v, element, ok, fresh) ==
  LET g == IF v.size = v.capacity
           THEN changeCapacity(v, v.capacity + v.increment, -1, -1, ok, fresh)
           ELSE Result(v, TRUE, 0)
  IN IF ~g.ret THEN Result(g.v, FALSE, g.asked)
     ELSE LET w == g.v
              b == CMod(w.beginning + w.capacity - 1, w.capacity)
              s == w.size + 1
          IN Result([w EXCEPT !.beginning = b,
                              !.elements = [w.elements EXCEPT ![w.beginning] = element],
                              !.size = s,
                              !.end = IF s = 1 THEN b ELSE w.end],
                    TRUE, g.asked)

\* push_front leaving __end__ alone when it stores the first element
push_front_KeepsEnd(v, element, ok, fresh) ==
  LET g == IF v.size = v.capacity
           THEN changeCapacity(v, v.capacity + v.increment, -1, -1, ok, fresh)
           ELSE Result(v, TRUE, 0)
  IN IF ~g.ret THEN Result(g.v, FALSE, g.asked)
     ELSE LET w == g.v
              b == CMod(w.beginning + w.capacity - 1, w.capacity)
          IN Result([w EXCEPT !.beginning = b,
                              !.elements = [w.elements EXCEPT ![b] = element],
                              !.size = w.size + 1],
                    TRUE, g.asked)

\* push_front (element)
push_front(v, element, ok, fresh) ==
  LET g == IF v.size = v.capacity
           THEN changeCapacity(v, v.capacity + v.increment, -1, -1, ok, fresh)
           ELSE Result(v, TRUE, 0)
  IN IF ~g.ret THEN Result(g.v, FALSE, g.asked)
     ELSE LET w == g.v
              b == CMod(w.beginning + w.capacity - 1, w.capacity)
              s == w.size + 1
          IN Result([w EXCEPT !.beginning = b,
                              !.elements = [w.elements EXCEPT ![b] = element],
                              !.size = s,
                              !.end = IF s = 1 THEN b ELSE w.end],
                    TRUE, g.asked)

\* pop_back handing back the result of its shrinking reallocation
pop_back_ReturnsShrink(v, ok, fresh) ==
  IF v.size = 0 THEN Result(v, FALSE, 0)
  ELSE LET w == [v EXCEPT !.end = CMod(v.end + v.capacity - 1, v.capacity),
                          !.size = v.size - 1]
       IN IF /\ w.capacity > w.size + w.increment - 1
             /\ (w.reserved = 0 \/ w.size >= w.reserved)
          THEN changeCapacity(w, w.size, -1, -1, ok, fresh)
          ELSE Result(w, TRUE, 0)

\* pop_back shrinking only when more than __increment__ slots are spare
pop_back_ShrinksLate(v, ok, fresh) ==
  IF v.size = 0 THEN Result(v, FALSE, 0)
  ELSE LET w == [v EXCEPT !.end = CMod(v.end + v.capacity - 1, v.capacity),
                          !.size = v.size - 1]
       IN IF /\ w.capacity > w.size + w.increment
             /\ (w.reserved = 0 \/ w.size >= w.reserved)
          THEN LET r == changeCapacity(w, w.size, -1, -1, ok, fresh)
               IN Result(r.v, TRUE, r.asked)
          ELSE Result(w, TRUE, 0)

\* pop_back ()
pop_back(v, ok, fresh) ==
  IF v.size = 0 THEN Result(v, FALSE, 0)
  ELSE LET w == [v EXCEPT !.end = CMod(v.end + v.capacity - 1, v.capacity),
                          !.size = v.size - 1]
       IN IF /\ w.capacity > w.size + w.increment - 1
             /\ (w.reserved = 0 \/ w.size >= w.reserved)
          THEN LET r == changeCapacity(w, w.size, -1, -1, ok, fresh)
               IN Result(r.v, TRUE, r.asked)
          ELSE Result(w, TRUE, 0)

\* pop_front shrinking without looking at __reserved__
pop_front_IgnoresFloor(v, ok, fresh) ==
  IF v.size = 0 THEN Result(v, FALSE, 0)
  ELSE LET w == [v EXCEPT !.beginning = CMod(v.beginning + 1, v.capacity),
                          !.size = v.size - 1]
       IN IF w.capacity > w.size + w.increment - 1
          THEN LET r == changeCapacity(w, w.size, -1, -1, ok, fresh)
               IN Result(r.v, TRUE, r.asked)
          ELSE Result(w, TRUE, 0)

\* pop_front ()
pop_front(v, ok, fresh) ==
  IF v.size = 0 THEN Result(v, FALSE, 0)
  ELSE LET w == [v EXCEPT !.beginning = CMod(v.beginning + 1, v.capacity),
                          !.size = v.size - 1]
       IN IF /\ w.capacity > w.size + w.increment - 1
             /\ (w.reserved = 0 \/ w.size >= w.reserved)
          THEN LET r == changeCapacity(w, w.size, -1, -1, ok, fresh)
               IN Result(r.v, TRUE, r.asked)
          ELSE Result(w, TRUE, 0)

\* erase, front branch: "move elements form position to 1"
RECURSIVE eraseMoveFront(_, _, _, _)
eraseMoveFront(el, cap, i, e1) ==
  IF i <= 0 THEN el
  ELSE LET e2 == CMod(e1 + cap - 1, cap)
       IN eraseMoveFront([el EXCEPT ![e1] = el[e2]], cap, i - 1, e2)

\* erase, back branch: "move elements from __size__ - 1 to position"
RECURSIVE eraseMoveBack(_, _, _, _, _)
eraseMoveBack(el, cap, i, last, e1) ==
  IF i >= last THEN el
  ELSE LET e2 == CMod(e1 + 1, cap)
       IN eraseMoveBack([el EXCEPT ![e1] = el[e2]], cap, i + 1, last, e2)

\* erase taking the last element where it should take the first
erase_DropsLast(v, position, ok, fresh) ==
  IF position < 0 \/ position >= v.size THEN Result(v, FALSE, 0)
  ELSE pop_back(v, ok, fresh)

\* erase (position)
erase(v, position, ok, fresh) ==
  IF position < 0 \/ position >= v.size THEN Result(v, FALSE, 0)
  ELSE IF position = v.size - 1 THEN pop_back(v, ok, fresh)
  ELSE IF position = 0 THEN pop_front(v, ok, fresh)
  ELSE IF v.capacity > v.size - 1 + v.increment - 1
  THEN changeCapacity(v, v.size - 1, position, -1, ok, fresh)
  ELSE IF position < v.size - position
  THEN LET e1 == CMod(v.beginning + position, v.capacity)
           w  == [v EXCEPT !.elements = eraseMoveFront(v.elements, v.capacity, position, e1)]
           r  == pop_front(w, ok, fresh)
       IN Result(r.v, TRUE, r.asked)
  ELSE LET w == [v EXCEPT !.elements =
                    eraseMoveBack(v.elements, v.capacity, position, v.size - 1, position)]
           r == pop_back(w, ok, fresh)
       IN Result(r.v, TRUE, r.asked)

\* insert, front branch: "move elements form 0 to position"
RECURSIVE insertMoveFront(_, _, _, _, _)
insertMoveFront(el, cap, i, position, e1) ==
  IF i > position THEN el
  ELSE LET e2 == CMod(e1 + 1, cap)
       IN insertMoveFront([el EXCEPT ![e1] = el[e2]], cap, i + 1, position, e2)

\* insert, back branch: "move elements from __size__ - 1 to position"
RECURSIVE insertMoveBack(_, _, _, _, _)
insertMoveBack(el, cap, i, position, e1) ==
  IF i <= position THEN el
  ELSE LET e2 == CMod(e1 + cap - 1, cap)
       IN insertMoveBack([el EXCEPT ![e1] = el[e2]], cap, i - 1, position, e2)

\* insert taking position = size () as a request to append
insert_AcceptsSize(v, position, element, ok, fresh) ==
  IF position < 0 \/ position > v.size THEN Result(v, FALSE, 0)
  ELSE IF position >= v.size - 1 THEN push_back(v, element, ok, fresh)
  ELSE IF position = 0 THEN push_front(v, element, ok, fresh)
  ELSE IF v.capacity < v.size + 1
  THEN LET r == changeCapacity(v, v.size + v.increment, -1, position, ok, fresh)
       IN IF ~r.ret THEN Result(r.v, FALSE, r.asked)
          ELSE Result([r.v EXCEPT !.elements = [r.v.elements EXCEPT ![position] = element]],
                      TRUE, r.asked)
  ELSE IF position < v.size - position
  THEN LET b  == CMod(v.beginning + v.capacity - 1, v.capacity)
           el == insertMoveFront(v.elements, v.capacity, 0, position, b)
       IN Result([v EXCEPT !.beginning = b,
                           !.size = v.size + 1,
                           !.elements = [el EXCEPT ![position] = element]],
                 TRUE, 0)
  ELSE LET e  == CMod(v.end + 1, v.capacity)
           el == insertMoveBack(v.elements, v.capacity, v.size, position, e)
       IN Result([v EXCEPT !.end = e,
                           !.size = v.size + 1,
                           !.elements = [el EXCEPT ![position] = element]],
                 TRUE, 0)

\* insert trying the first position before the last one
insert_FrontFirst(v, position, element, ok, fresh) ==
  IF position < 0 \/ position >= v.size THEN Result(v, FALSE, 0)
  ELSE IF position = 0 THEN push_front(v, element, ok, fresh)
  ELSE IF position = v.size - 1 THEN push_back(v, element, ok, fresh)
  ELSE IF v.capacity < v.size + 1
  THEN LET r == changeCapacity(v, v.size + v.increment, -1, position, ok, fresh)
       IN IF ~r.ret THEN Result(r.v, FALSE, r.asked)
          ELSE Result([r.v EXCEPT !.elements = [r.v.elements EXCEPT ![position] = element]],
                      TRUE, r.asked)
  ELSE IF position < v.size - position
  THEN LET b  == CMod(v.beginning + v.capacity - 1, v.capacity)
           el == insertMoveFront(v.elements, v.capacity, 0, position, b)
       IN Result([v EXCEPT !.beginning = b,
                           !.size = v.size + 1,
                           !.elements = [el EXCEPT ![position] = element]],
                 TRUE, 0)
  ELSE LET e  == CMod(v.end + 1, v.capacity)
           el == insertMoveBack(v.elements, v.capacity, v.size, position, e)
       IN Result([v EXCEPT !.end = e,
                           !.size = v.size + 1,
                           !.elements = [el EXCEPT ![position] = element]],
                 TRUE, 0)

\* insert (position, element)
insert(v, position, element, ok, fresh) ==
  IF position < 0 \/ position >= v.size THEN Result(v, FALSE, 0)
  ELSE IF position = v.size - 1 THEN push_back(v, element, ok, fresh)
  ELSE IF position = 0 THEN push_front(v, element, ok, fresh)
  ELSE IF v.capacity < v.size + 1
  THEN LET r == changeCapacity(v, v.size + v.increment, -1, position, ok, fresh)
       IN IF ~r.ret THEN Result(r.v, FALSE, r.asked)
          ELSE Result([r.v EXCEPT !.elements = [r.v.elements EXCEPT ![position] = element]],
                      TRUE, r.asked)
  ELSE IF position < v.size - position
  THEN LET b  == CMod(v.beginning + v.capacity - 1, v.capacity)
           el == insertMoveFront(v.elements, v.capacity, 0, position, b)
       IN Result([v EXCEPT !.beginning = b,
                           !.size = v.size + 1,
                           !.elements = [el EXCEPT ![position] = element]],
                 TRUE, 0)
  ELSE LET e  == CMod(v.end + 1, v.capacity)
           el == insertMoveBack(v.elements, v.capacity, v.size, position, e)
       IN Result([v EXCEPT !.end = e,
                           !.size = v.size + 1,
                           !.elements = [el EXCEPT ![position] = element]],
                 TRUE, 0)

\* the search loop of find: i is the index, e the slot it looks at
RECURSIVE findLoop(_, _, _, _)
findLoop(v, element, i, e) ==
  IF i >= v.size THEN -1
  ELSE IF v.elements[e] = element THEN i
  ELSE findLoop(v, element, i + 1, CMod(e + 1, v.capacity))

\* find handing back the slot of the buffer where it found the element
find_ReturnsSlot(v, element) ==
  LET i == findLoop(v, element, 0, v.beginning)
  IN IF i < 0 THEN -1 ELSE CMod(v.beginning + i, v.capacity)

\* find (element)
find(v, element) == findLoop(v, element, 0, v.beginning)

\* Iterator::operator ++ taking the position modulo __capacity__ in every case
IteratorNext_AlwaysWraps(v, pos) ==
  CMod(pos + 1, v.capacity)

\* Iterator::operator ++ : the position after pos
IteratorNext(v, pos) ==
  IF v.end >= v.beginning THEN pos + 1 ELSE CMod(pos + 1, v.capacity)

\* for (auto e: v): from begin () = __beginning__ until the position equals
\* end () = __end__ + 1, dereferencing each position on the way.  fuel bounds
\* the number of increments (a traversal that has not ended by then is cut).
RECURSIVE traverse(_, _, _)
traverse(v, pos, fuel) ==
  IF pos = v.end + 1 \/ fuel = 0 THEN <<>>
  ELSE <<v.elements[pos]>> \o traverse(v, IteratorNext(v, pos), fuel - 1)

\* the elements a begin () .. end () traversal yields, in order
Iterate(v) == traverse(v, v.beginning, v.capacity + 1)

\* the number of ++ a cursor at pos needs to become equal to end (), or -1 if
\* it has not got there after fuel of them
RECURSIVE increments(_, _, _)
increments(v, pos, fuel) ==
  IF pos = v.end + 1 THEN 0
  ELSE IF fuel = 0 THEN -1
  ELSE LET rest == increments(v, IteratorNext(v, pos), fuel - 1)
       IN IF rest < 0 THEN -1 ELSE rest + 1

\* the comparison loop of operator ==
RECURSIVE equalLoop(_, _, _, _)
equalLoop(a, b, i, e) ==
  IF i >= a.size THEN TRUE
  ELSE IF a.elements[e] # at(b, i) THEN FALSE
  ELSE equalLoop(a, b, i + 1, CMod(e + 1, a.capacity))

\* operator == reading the other vector's buffer from slot 0
Equal_Physical(a, b) ==
  IF a.size # b.size THEN FALSE
  ELSE \A i \in 0..(a.size - 1) :
         a.elements[CMod(a.beginning + i, a.capacity)] = b.elements[i]

\* operator == (other)
Equal(a, b) ==
  IF a.size # b.size THEN FALSE ELSE equalLoop(a, b, 0, a.beginning)

\* ---------------------------------------------------------------------------
\* The allocator.  new (std::nothrow) T [n] either fails or returns a buffer
\* whose slots hold indeterminate values; a call that does not allocate draws
\* nothing from it.
\* ---------------------------------------------------------------------------
AnyFresh == [i \in 0..MaxCapacity |-> 1]
NoAllocation == [ok |-> TRUE, fresh |-> AnyFresh]
\* what an allocation of n elements can draw
AllocatorInputs(n) ==
  {[ok |-> FALSE, fresh |-> AnyFresh]}
    \cup {[ok |-> TRUE, fresh |-> f] : f \in [0..(n - 1) -> Values]}

\* the runs of a call F, one for each thing the allocator can do if F asks it
Runs(F(_, _)) ==
  LET dry == F(TRUE, AnyFresh)
  IN IF dry.asked = 0 THEN {[a |-> NoAllocation, r |-> dry]}
     ELSE {[a |-> a, r |-> F(a.ok, a.fresh)] : a \in AllocatorInputs(dry.asked)}

\* ---------------------------------------------------------------------------
\* What the member functions touch.  Every subscript __elements__ [i] (or
\* newElements [i], or the iterator's *(__elements__ + i)) is a slot event that
\* names the number of slots of the buffer and the index i; every x % c is a
\* modulo event that names the divisor c.  The operators below follow the same
\* code as the ones above and give the set of events of one call.
\* ---------------------------------------------------------------------------
Slot(c, i) == [kind |-> "slot", of |-> c, index |-> i]
Modulo(c) == [kind |-> "modulo", of |-> c, index |-> 0]

\* the event is defined behaviour: a divisor that is not 0, an index inside the buffer
InBounds(ev) ==
  IF ev.kind = "modulo" THEN ev.of # 0 ELSE ev.index \in 0..(ev.of - 1)

\* a % b as the call goes on with it; after a division by 0 any value would do
SafeMod(a, b) == IF b = 0 THEN 0 ELSE CMod(a, b)

\* at (position) / operator [] (position)
atTouches(v, position) ==
  {Modulo(v.capacity), Slot(v.capacity, SafeMod(v.beginning + position, v.capacity))}

\* the copy loop of __changeCapacity__
RECURSIVE copyLoopTouches(_, _, _, _, _, _, _)
copyLoopTouches(v, n, del, free, i, e, newCapacity) ==
  IF i >= n THEN {}
  ELSE LET e1 == IF i = del THEN SafeMod(e + 1, v.capacity) ELSE e
           m1 == IF i = del THEN {Modulo(v.capacity)} ELSE {}
       IN IF i = free
          THEN m1 \cup copyLoopTouches(v, n, del, free, i + 1, e1, newCapacity)
          ELSE m1 \cup {Slot(newCapacity, i), Slot(v.capacity, e1), Modulo(v.capacity)}
                  \cup copyLoopTouches(v, n, del, free, i + 1,
                                       SafeMod(e1 + 1, v.capacity), newCapacity)

\* __changeCapacity__ (newCapacity, deleteElementAtPosition, leaveFreeSlotAtPosition)
changeCapacityTouches(v, newCapacity, del, free, ok) ==
  IF newCapacity = 0 \/ ~ok THEN {}
  ELSE LET s1 == IF del >= 0 THEN v.size - 1 ELSE v.size
           s2 == IF free >= 0 THEN s1 + 1 ELSE s1
           n  == IF s2 > newCapacity THEN newCapacity ELSE s2
       IN copyLoopTouches(v, n, del, free, 0, v.beginning, newCapacity)

\* reserve (newCapacity)
reserveTouches(v, newCapacity, ok) ==
  IF newCapacity > v.size THEN changeCapacityTouches(v, newCapacity, -1, -1, ok) ELSE {}

\* push_back (element)
push_backTouches(v, ok) ==
  LET full == v.size = v.capacity
      g == IF full
           THEN changeCapacity(v, v.capacity + v.increment, -1, -1, ok, AnyFresh)
           ELSE Result(v, TRUE, 0)
      t == IF full
           THEN changeCapacityTouches(v, v.capacity + v.increment, -1, -1, ok)
           ELSE {}
  IN IF ~g.ret THEN t
     ELSE t \cup {Modulo(g.v.capacity),
                  Slot(g.v.capacity, SafeMod(g.v.end + 1, g.v.capacity))}

\* push_front stepping back with (__beginning__ - 1) % __capacity__
push_frontTouches_StepsBelowZero(v, ok) ==
  LET full == v.size = v.capacity
      g == IF full
           THEN changeCapacity(v, v.capacity + v.increment, -1, -1, ok, AnyFresh)
           ELSE Result(v, TRUE, 0)
      t == IF full
           THEN changeCapacityTouches(v, v.capacity + v.increment, -1, -1, ok)
           ELSE {}
  IN IF ~g.ret THEN t
     ELSE t \cup {Modulo(g.v.capacity),
                  Slot(g.v.capacity, SafeMod(g.v.beginning - 1, g.v.capacity))}

\* push_front (element)
push_frontTouches(v, ok) ==
  LET full == v.size = v.capacity
      g == IF full
           THEN changeCapacity(v, v.capacity + v.increment, -1, -1, ok, AnyFresh)
           ELSE Result(v, TRUE, 0)
      t == IF full
           THEN changeCapacityTouches(v, v.capacity + v.increment, -1, -1, ok)
           ELSE {}
  IN IF ~g.ret THEN t
     ELSE t \cup {Modulo(g.v.capacity),
                  Slot(g.v.capacity, SafeMod(g.v.beginning + g.v.capacity - 1, g.v.capacity))}

\* pop_back ()
pop_backTouches(v, ok) ==
  IF v.size = 0 THEN {}
  ELSE LET w == [v EXCEPT !.end = SafeMod(v.end + v.capacity - 1, v.capacity),
                          !.size = v.size - 1]
       IN {Modulo(v.capacity)}
            \cup IF /\ w.capacity > w.size + w.increment - 1
                    /\ (w.reserved = 0 \/ w.size >= w.reserved)
                 THEN changeCapacityTouches(w, w.size, -1, -1, ok)
                 ELSE {}

\* pop_front ()
pop_frontTouches(v, ok) ==
  IF v.size = 0 THEN {}
  ELSE LET w == [v EXCEPT !.beginning = SafeMod(v.beginning + 1, v.capacity),
                          !.size = v.size - 1]
       IN {Modulo(v.capacity)}
            \cup IF /\ w.capacity > w.size + w.increment - 1
                    /\ (w.reserved = 0 \/ w.size >= w.reserved)
                 THEN changeCapacityTouches(w, w.size, -1, -1, ok)
                 ELSE {}

\* erase, front branch: "move elements form position to 1"
RECURSIVE eraseMoveFrontTouches(_, _, _)
eraseMoveFrontTouches(cap, i, e1) ==
  IF i <= 0 THEN {}
  ELSE LET e2 == SafeMod(e1 + cap - 1, cap)
       IN {Modulo(cap), Slot(cap, e1), Slot(cap, e2)}
            \cup eraseMoveFrontTouches(cap, i - 1, e2)

\* erase, back branch: "move elements from __size__ - 1 to position"
RECURSIVE eraseMoveBackTouches(_, _, _, _)
eraseMoveBackTouches(cap, i, last, e1) ==
  IF i >= last THEN {}
  ELSE LET e2 == SafeMod(e1 + 1, cap)
       IN {Modulo(cap), Slot(cap, e1), Slot(cap, e2)}
            \cup eraseMoveBackTouches(cap, i + 1, last, e2)

\* erase (position)
eraseTouches(v, position, ok) ==
  IF position < 0 \/ position >= v.size THEN {}
  ELSE IF position = v.size - 1 THEN pop_backTouches(v, ok)
  ELSE IF position = 0 THEN pop_frontTouches(v, ok)
  ELSE IF v.capacity > v.size - 1 + v.increment - 1
  THEN changeCapacityTouches(v, v.size - 1, position, -1, ok)
  ELSE IF position < v.size - position
  THEN {Modulo(v.capacity)}
         \cup eraseMoveFrontTouches(v.capacity, position,
                                    SafeMod(v.beginning + position, v.capacity))
         \cup pop_frontTouches(v, ok)
  ELSE eraseMoveBackTouches(v.capacity, position, v.size - 1, position)
         \cup pop_backTouches(v, ok)

\* insert, front branch: "move elements form 0 to position"
RECURSIVE insertMoveFrontTouches(_, _, _, _)
insertMoveFrontTouches(cap, i, position, e1) ==
  IF i > position THEN {}
  ELSE LET e2 == SafeMod(e1 + 1, cap)
       IN {Modulo(cap), Slot(cap, e1), Slot(cap, e2)}
            \cup insertMoveFrontTouches(cap, i + 1, position, e2)

\* insert, back branch: "move elements from __size__ - 1 to position"
RECURSIVE insertMoveBackTouches(_, _, _, _)
insertMoveBackTouches(cap, i, position, e1) ==
  IF i <= position THEN {}
  ELSE LET e2 == SafeMod(e1 + cap - 1, cap)
       IN {Modulo(cap), Slot(cap, e1), Slot(cap, e2)}
            \cup insertMoveBackTouches(cap, i - 1, position, e2)

\* insert (position, element)
insertTouches(v, position, ok) ==
  IF position < 0 \/ position >= v.size THEN {}
  ELSE IF position = v.size - 1 THEN push_backTouches(v, ok)
  ELSE IF position = 0 THEN push_frontTouches(v, ok)
  ELSE IF v.capacity < v.size + 1
  THEN changeCapacityTouches(v, v.size + v.increment, -1, position, ok)
         \cup IF ok THEN {Slot(v.size + v.increment, position)} ELSE {}
  ELSE IF position < v.size - position
  THEN {Modulo(v.capacity), Slot(v.capacity, position)}
         \cup insertMoveFrontTouches(v.capacity, 0, position,
                                     SafeMod(v.beginning + v.capacity - 1, v.capacity))
  ELSE {Modulo(v.capacity), Slot(v.capacity, position)}
         \cup insertMoveBackTouches(v.capacity, v.size, position,
                                    SafeMod(v.end + 1, v.capacity))

\* the search loop of find
RECURSIVE findLoopTouches(_, _, _, _)
findLoopTouches(v, element, i, e) ==
  IF i >= v.size THEN {}
  ELSE {Slot(v.capacity, e)}
         \cup IF e \in DOMAIN v.elements /\ v.elements[e] = element THEN {}
              ELSE {Modulo(v.capacity)}
                     \cup findLoopTouches(v, element, i + 1, SafeMod(e + 1, v.capacity))

\* the comparison loop of operator ==
RECURSIVE equalLoopTouches(_, _, _, _)
equalLoopTouches(a, b, i, e) ==
  IF i >= a.size THEN {}
  ELSE {Slot(a.capacity, e)} \cup atTouches(b, i)
         \cup IF e \in DOMAIN a.elements /\ b.capacity # 0 /\ a.elements[e] # at(b, i) THEN {}
              ELSE {Modulo(a.capacity)}
                     \cup equalLoopTouches(a, b, i + 1, SafeMod(e + 1, a.capacity))

\* operator == (other)
EqualTouches(a, b) ==
  IF a.size # b.size THEN {} ELSE equalLoopTouches(a, b, 0, a.beginning)

\* for (auto e: v): operator * at each position, operator ++ after it
RECURSIVE traverseTouches(_, _, _)
traverseTouches(v, pos, fuel) ==
  IF pos = v.end + 1 \/ fuel = 0 THEN {}
  ELSE {Slot(v.capacity, pos)}
         \cup IF v.end >= v.beginning
              THEN traverseTouches(v, IteratorNext(v, pos), fuel - 1)
              ELSE {Modulo(v.capacity)}
                     \cup IF v.capacity = 0 THEN {}
                          ELSE traverseTouches(v, IteratorNext(v, pos), fuel - 1)

\* every call that can be made on v within its precondition: at and
\* operator [] with a valid index, the others with any argument and any
\* answer of the allocator (a push only while the growth stays within the bound)
Touches(v) ==
  LET grow == v.size < v.capacity \/ v.capacity + v.increment <= MaxCapacity
  IN UNION {atTouches(v, position) : position \in 0..(v.size - 1)}
     \cup UNION {findLoopTouches(v, element, 0, v.beginning) : element \in Values}
     \cup traverseTouches(v, v.beginning, v.capacity + 1)
     \cup UNION {pop_backTouches(v, ok) \cup pop_frontTouches(v, ok)
                 \cup UNION {eraseTouches(v, position, ok) : position \in -1..v.size}
                 \cup UNION {reserveTouches(v, n, ok) : n \in 0..MaxCapacity}
                 \cup (IF grow
                       THEN push_backTouches(v, ok) \cup push_frontTouches(v, ok)
                            \cup UNION {insertTouches(v, position, ok) :
                                          position \in -1..v.size}
                       ELSE {}) : ok \in BOOLEAN}

\* ---------------------------------------------------------------------------
\* Copy-construction and assignment.  They make several calls, each with its
\* own answer of the allocator, so they are modelled by the set of vectors
\* they can end with; failed says that some allocation of the run failed.
\* ---------------------------------------------------------------------------
Outcome(v, failed) == [v |-> v, failed |-> failed]

\* this->reserve (other.size ()), for every answer of the allocator
reserveOutcomes(v, n) ==
  {x.r : x \in Runs(LAMBDA ok, fresh : reserve(v, n, ok, fresh))}

\* this->push_back (e), for every answer of the allocator; the result is ignored
pushOutcomes(d, element) ==
  {Outcome(x.r.v, d.failed \/ ~x.r.ret) :
     x \in Runs(LAMBDA ok, fresh : push_back(d.v, element, ok, fresh))}

\* for (auto e: other) this->push_back (e);  s is what the traversal yields
RECURSIVE pushAll(_, _)
pushAll(D, s) ==
  IF s = <<>> THEN D
  ELSE pushAll(UNION {pushOutcomes(d, Head(s)) : d \in D}, Tail(s))

\* the body shared by the copy-constructor and operator =
copyInto(this, other) ==
  LET c == clear(this)
  IN UNION {IF ~r.ret THEN {Outcome(r.v, TRUE)}
            ELSE pushAll({Outcome(r.v, FALSE)}, Iterate(other)) :
            r \in reserveOutcomes(c, other.size)}

\* vector (vector& other): the new object starts from the member initialisers
copyConstruct(other) == copyInto(EmptyVector(1), other)

\* operator = (vector other): other is passed by value, so it is copy-constructed first
assign(this, other) ==
  UNION {{Outcome(d.v, d.failed \/ t.failed) : d \in copyInto(this, t.v)} :
         t \in copyConstruct(other)}

\* the initializer-list constructor taking the elements of il last to first
initializerList_Backwards(il) ==
  UNION {IF ~r.ret THEN {Outcome(r.v, TRUE)}
         ELSE pushAll({Outcome(r.v, FALSE)},
                      [i \in 1..Len(il) |-> il[Len(il) + 1 - i]]) :
         r \in reserveOutcomes(EmptyVector(1), Len(il))}

\* vector (std::initializer_list<vectorType> il): the new object starts from the
\* member initialisers; il is traversed by the language, element by element
initializerList(il) ==
  UNION {IF ~r.ret THEN {Outcome(r.v, TRUE)}
         ELSE pushAll({Outcome(r.v, FALSE)}, il) :
         r \in reserveOutcomes(EmptyVector(1), Len(il))}

\* this = { ... }: the argument of operator = is constructed from the list
assignList(this, il) ==
  UNION {{Outcome(d.v, d.failed \/ t.failed) : d \in copyInto(this, t.v)} :
         t \in initializerList(il)}

\* the initializer lists of the model: up to MaxCapacity values
Lists == UNION {[1..n -> Values] : n \in 0..MaxCapacity}

\* ---------------------------------------------------------------------------
\* Error reporting.  The failure kind of a call that returned false: an
\* allocation that could not be satisfied, a capacity request below size (),
\* or an index outside [0, size ()); and the field every failing call records it in.
\* ---------------------------------------------------------------------------
errorCode(name, r) ==
  IF r.asked # 0 THEN "BAD_ALLOC"
  ELSE IF name = "reserve" THEN "LENGTH_ERROR"
  ELSE "OUT_OF_RANGE"

\* lastErrorCode overwritten by successful calls too
latch_ResetsOnSuccess(code, name, r) ==
  IF r.ret THEN "OK" ELSE errorCode(name, r)

\* lastErrorCode after a call: a failure overwrites it, a success leaves it
latch(code, name, r) ==
  IF r.ret THEN code ELSE errorCode(name, r)

\* ---------------------------------------------------------------------------
\* The state machine: one vector (the variables) that a caller operates on.
\* op records the last call: its arguments, the allocator's answer if it was
\* asked, the value returned.  floor is the argument n of the last reserve (n)
\* if that call returned true after allocating, and 0 after any other reserve
\* and after clear ().  An action taken with track = FALSE keeps neither: it
\* records only that a call was made.  dst is the destination of a
\* copy-construction or assignment just made from the vector, or of a
\* construction or assignment from an initializer list, which it then records
\* in list.  net counts, since construction or the last clear (), the push and
\* insert calls that returned true minus the pop and erase calls that returned
\* true.  promise is the argument n of a reserve (n) that returned true, kept
\* while only pushes and pops follow it.  past says whether a reserve has
\* returned true since construction or the last clear (), and whether an
\* allocation has failed since construction began.  lastErrorCode is the vector's error field and batchOk says whether
\* every call made since construction or the last clearLastErrorCode ()
\* returned true.  queue is the state of a caller that uses the vector as a circular
\* queue of K elements: the values it has pushed so far and its place in the
\* loop.
\* ---------------------------------------------------------------------------
Call(name, position, element, x) ==
  [name |-> name, position |-> position, element |-> element,
   ok |-> x.a.ok, ret |-> x.r.ret, asked |-> x.r.asked]

\* a call that cannot fail and does not allocate
Plain(name) ==
  [name |-> name, position |-> 0, element |-> 0, ok |-> TRUE, ret |-> TRUE, asked |-> 0]

\* what op becomes: the call c, or only the fact that a call was made
Note(track, c) == op' = IF track THEN c ELSE Plain("call")

\* a call that adds (d = 1) or removes (d = -1) an element if it returns true
Counted(d, ret) == net' = IF ret THEN net + d ELSE net

NoQueue == [K |-> 0, pushed |-> <<>>, pc |-> "idle"]

NoDst == [made |-> FALSE, failed |-> FALSE, v |-> EmptyVector(1), list |-> <<>>]

\* no reserve has returned true, no allocation has failed
NoPast == [reserved |-> FALSE, failed |-> FALSE]

\* the variables take the fields of v
Becomes(v) ==
  /\ elements' = v.elements
  /\ capacity' = v.capacity
  /\ increment' = v.increment
  /\ reserved' = v.reserved
  /\ size' = v.size
  /\ beginning' = v.beginning
  /\ end' = v.end
  /\ heap' = v.heap

\* vector<T> v (inc);
Init ==
  /\ \E inc \in 0..MaxIncrement :
       LET v == Construct(inc)
       IN /\ elements = v.elements
          /\ capacity = v.capacity
          /\ increment = v.increment
          /\ reserved = v.reserved
          /\ size = v.size
          /\ beginning = v.beginning
          /\ end = v.end
          /\ heap = v.heap
  /\ op = Plain("construct")
  /\ floor = 0
  /\ dst = NoDst
  /\ net = 0
  /\ queue = NoQueue
  /\ lastErrorCode = "OK"
  /\ batchOk = TRUE
  /\ promise = 0
  /\ past = NoPast

\* a growth by increment stays within the model's bound
CanGrow == size < capacity \/ capacity + increment <= MaxCapacity

PushBack(track) ==
  /\ CanGrow
  /\ \E element \in Values :
       \E x \in Runs(LAMBDA ok, fresh : push_back(Self, element, ok, fresh)) :
         /\ Becomes(x.r.v)
         /\ Note(track, Call("push_back", 0, element, x))
         /\ Counted(1, x.r.ret)
  /\ UNCHANGED floor
  /\ dst' = NoDst
  /\ UNCHANGED queue
  /\ UNCHANGED <<lastErrorCode, batchOk, promise, past>>

PushFront(track) ==
  /\ CanGrow
  /\ \E element \in Values :
       \E x \in Runs(LAMBDA ok, fresh : push_front(Self, element, ok, fresh)) :
         /\ Becomes(x.r.v)
         /\ Note(track, Call("push_front", 0, element, x))
         /\ Counted(1, x.r.ret)
  /\ UNCHANGED floor
  /\ dst' = NoDst
  /\ UNCHANGED queue
  /\ UNCHANGED <<lastErrorCode, batchOk, promise, past>>

PopBack(track) ==
  /\ \E x \in Runs(LAMBDA ok, fresh : pop_back(Self, ok, fresh)) :
       /\ Becomes(x.r.v)
       /\ Note(track, Call("pop_back", 0, 0, x))
       /\ Counted(-1, x.r.ret)
  /\ UNCHANGED floor
  /\ dst' = NoDst
  /\ UNCHANGED queue
  /\ UNCHANGED <<lastErrorCode, batchOk, promise, past>>

PopFront(track) ==
  /\ \E x \in Runs(LAMBDA ok, fresh : pop_front(Self, ok, fresh)) :
       /\ Becomes(x.r.v)
       /\ Note(track, Call("pop_front", 0, 0, x))
       /\ Counted(-1, x.r.ret)
  /\ UNCHANGED floor
  /\ dst' = NoDst
  /\ UNCHANGED queue
  /\ UNCHANGED <<lastErrorCode, batchOk, promise, past>>

Erase(track) ==
  /\ \E position \in -1..size :
       \E x \in Runs(LAMBDA ok, fresh : erase(Self, position, ok, fresh)) :
         /\ Becomes(x.r.v)
         /\ Note(track, Call("erase", position, 0, x))
         /\ Counted(-1, x.r.ret)
  /\ UNCHANGED floor
  /\ dst' = NoDst
  /\ UNCHANGED queue
  /\ UNCHANGED <<lastErrorCode, batchOk, promise, past>>

Insert(track) ==
  /\ CanGrow
  /\ \E position \in -1..size, element \in Values :
       \E x \in Runs(LAMBDA ok, fresh : insert(Self, position, element, ok, fresh)) :
         /\ Becomes(x.r.v)
         /\ Note(track, Call("insert", position, element, x))
         /\ Counted(1, x.r.ret)
  /\ UNCHANGED floor
  /\ dst' = NoDst
  /\ UNCHANGED queue
  /\ UNCHANGED <<lastErrorCode, batchOk, promise, past>>

Reserve(track) ==
  /\ \E newCapacity \in 0..MaxCapacity :
       \E x \in Runs(LAMBDA ok, fresh : reserve(Self, newCapacity, ok, fresh)) :
         /\ Becomes(x.r.v)
         /\ Note(track, Call("reserve", newCapacity, 0, x))
         /\ floor' = IF track /\ x.r.ret /\ x.r.asked # 0 THEN newCapacity ELSE 0
  /\ dst' = NoDst
  /\ UNCHANGED queue
  /\ UNCHANGED <<lastErrorCode, batchOk, promise, past>>
  /\ UNCHANGED net

Clear(track) ==
  /\ Becomes(clear(Self))
  /\ Note(track, Plain("clear"))
  /\ floor' = 0
  /\ dst' = NoDst
  /\ UNCHANGED queue
  /\ UNCHANGED <<lastErrorCode, batchOk, promise, past>>
  /\ net' = 0

\* vector<T> d = v;
CopyConstruct ==
  /\ \E d \in copyConstruct(Self) :
       dst' = [made |-> TRUE, failed |-> d.failed, v |-> d.v, list |-> <<>>]
  /\ op' = Plain("copy")
  /\ UNCHANGED <<elements, capacity, increment, reserved, size, beginning, end, heap, floor, net, queue>>
  /\ UNCHANGED <<lastErrorCode, batchOk, promise, past>>

\* vector<T> d (inc); d = v;
Assign ==
  /\ \E inc \in 0..MaxIncrement :
       \E d \in assign(Construct(inc), Self) :
         dst' = [made |-> TRUE, failed |-> d.failed, v |-> d.v, list |-> <<>>]
  /\ op' = Plain("assign")
  /\ UNCHANGED <<elements, capacity, increment, reserved, size, beginning, end, heap, floor, net, queue>>
  /\ UNCHANGED <<lastErrorCode, batchOk, promise, past>>

\* vector<T> d = { ... };
InitializerList ==
  /\ \E il \in Lists :
       \E d \in initializerList(il) :
         dst' = [made |-> TRUE, failed |-> d.failed, v |-> d.v, list |-> il]
  /\ op' = Plain("list")
  /\ UNCHANGED <<elements, capacity, increment, reserved, size, beginning, end, heap, floor, net, queue>>
  /\ UNCHANGED <<lastErrorCode, batchOk, promise, past>>

\* vector<T> d (inc); d = { ... };
AssignInitializerList ==
  /\ \E inc \in 0..MaxIncrement, il \in Lists :
       \E d \in assignList(Construct(inc), il) :
         dst' = [made |-> TRUE, failed |-> d.failed, v |-> d.v, list |-> il]
  /\ op' = Plain("assign list")
  /\ UNCHANGED <<elements, capacity, increment, reserved, size, beginning, end, heap, floor, net, queue>>
  /\ UNCHANGED <<lastErrorCode, batchOk, promise, past>>

\* vector<T> q (inc); optionally q.reserve (K + 1); every allocation succeeds
QueueBegin ==
  /\ queue.pc = "idle"
  /\ \E K \in 1..(MaxCapacity - 1) : \E n \in {0, K + 1} :
       \E x \in Runs(LAMBDA ok, fresh : reserve(Self, n, ok, fresh)) :
         /\ x.a.ok
         /\ Becomes(x.r.v)
         /\ queue' = [K |-> K, pushed |-> <<>>, pc |-> "push"]
  /\ op' = Plain("call")
  /\ UNCHANGED <<lastErrorCode, batchOk, promise, past>>
  /\ UNCHANGED <<floor, dst, net>>

\* q.push_back (i), i counting the pushes
QueuePush ==
  /\ queue.pc = "push"
  /\ Len(queue.pushed) < MaxPushed
  /\ CanGrow
  /\ LET i == Len(queue.pushed) + 1
     IN \E x \in Runs(LAMBDA ok, fresh : push_back(Self, i, ok, fresh)) :
          /\ x.a.ok
          /\ Becomes(x.r.v)
          /\ Counted(1, x.r.ret)
          /\ queue' = [queue EXCEPT !.pushed = Append(queue.pushed, i),
                                    !.pc = IF x.r.v.size > queue.K THEN "erase" ELSE "push"]
  /\ op' = Plain("call")
  /\ UNCHANGED <<lastErrorCode, batchOk, promise, past>>
  /\ UNCHANGED <<floor, dst>>

\* if (q.size () > K) q.erase (0);
QueueErase ==
  /\ queue.pc = "erase"
  /\ \E x \in Runs(LAMBDA ok, fresh : erase(Self, 0, ok, fresh)) :
       /\ x.a.ok
       /\ Becomes(x.r.v)
       /\ Counted(-1, x.r.ret)
       /\ queue' = [queue EXCEPT !.pc = "push"]
  /\ op' = Plain("call")
  /\ UNCHANGED <<lastErrorCode, batchOk, promise, past>>
  /\ UNCHANGED <<floor, dst>>

\* a call whose failure is recorded in lastErrorCode; op keeps what it returned
Checked(name, x) ==
  /\ Becomes(x.r.v)
  /\ op' = [Plain("call") EXCEPT !.ret = x.r.ret]
  /\ lastErrorCode' = latch(lastErrorCode, name, x.r)
  /\ batchOk' = (batchOk /\ x.r.ret)
  /\ dst' = NoDst
  /\ UNCHANGED <<floor, queue, promise, past>>

CheckedPushBack ==
  /\ CanGrow
  /\ \E element \in Values :
       \E x \in Runs(LAMBDA ok, fresh : push_back(Self, element, ok, fresh)) :
         Checked("push_back", x) /\ Counted(1, x.r.ret)

CheckedPushFront ==
  /\ CanGrow
  /\ \E element \in Values :
       \E x \in Runs(LAMBDA ok, fresh : push_front(Self, element, ok, fresh)) :
         Checked("push_front", x) /\ Counted(1, x.r.ret)

CheckedPopBack ==
  \E x \in Runs(LAMBDA ok, fresh : pop_back(Self, ok, fresh)) :
    Checked("pop_back", x) /\ Counted(-1, x.r.ret)

CheckedPopFront ==
  \E x \in Runs(LAMBDA ok, fresh : pop_front(Self, ok, fresh)) :
    Checked("pop_front", x) /\ Counted(-1, x.r.ret)

CheckedErase ==
  \E position \in -1..size :
    \E x \in Runs(LAMBDA ok, fresh : erase(Self, position, ok, fresh)) :
      Checked("erase", x) /\ Counted(-1, x.r.ret)

CheckedInsert ==
  /\ CanGrow
  /\ \E position \in -1..size, element \in Values :
       \E x \in Runs(LAMBDA ok, fresh : insert(Self, position, element, ok, fresh)) :
         Checked("insert", x) /\ Counted(1, x.r.ret)

CheckedReserve ==
  \E newCapacity \in 0..MaxCapacity :
    \E x \in Runs(LAMBDA ok, fresh : reserve(Self, newCapacity, ok, fresh)) :
      Checked("reserve", x) /\ UNCHANGED net

\* clearLastErrorCode ()
ClearLastErrorCode ==
  /\ lastErrorCode' = "OK"
  /\ batchOk' = TRUE
  /\ op' = Plain("clearLastErrorCode")
  /\ dst' = NoDst
  /\ UNCHANGED <<elements, capacity, increment, reserved, size, beginning, end, heap,
                 floor, net, queue, promise, past>>

\* v.reserve (n), the caller keeping n if the call returned true
ReserveAhead ==
  /\ \E newCapacity \in 0..MaxCapacity :
       \E x \in Runs(LAMBDA ok, fresh : reserve(Self, newCapacity, ok, fresh)) :
         /\ Becomes(x.r.v)
         /\ op' = Call("reserve", newCapacity, 0, x)
         /\ promise' = IF x.r.ret THEN newCapacity ELSE 0
  /\ dst' = NoDst
  /\ UNCHANGED <<floor, net, queue, lastErrorCode, batchOk, past>>

\* vector<T> d = { ... }; with as many elements as the vector has, or one less,
\* every allocation succeeding: a vector to compare the vector with, made when
\* there is none
ListToCompare ==
  /\ ~dst.made
  /\ \E il \in {l \in Lists : Len(l) \in {size, size - 1}} :
       \E d \in initializerList(il) :
         /\ ~d.failed
         /\ dst' = [made |-> TRUE, failed |-> FALSE, v |-> d.v, list |-> il]
  /\ op' = Plain("list")
  /\ UNCHANGED <<elements, capacity, increment, reserved, size, beginning, end, heap,
                 floor, net, queue, lastErrorCode, batchOk, promise, past>>

\* the caller's calls on the vector, each recorded in op
Next ==
  \/ PushBack(TRUE)
  \/ PushFront(TRUE)
  \/ PopBack(TRUE)
  \/ PopFront(TRUE)
  \/ Erase(TRUE)
  \/ Insert(TRUE)
  \/ Reserve(TRUE)
  \/ Clear(TRUE)

Spec == Init /\ [][Next]_vars

\* the same calls, unrecorded, and copies made of the vector in any state they lead to
NextCopy ==
  \/ PushBack(FALSE)
  \/ PushFront(FALSE)
  \/ PopBack(FALSE)
  \/ PopFront(FALSE)
  \/ Erase(FALSE)
  \/ Insert(FALSE)
  \/ Reserve(FALSE)
  \/ Clear(FALSE)
  \/ CopyConstruct
  \/ Assign

SpecCopy == Init /\ [][NextCopy]_vars

\* vectors made from initializer lists
NextList ==
  \/ InitializerList
  \/ AssignInitializerList

SpecList == Init /\ [][NextList]_vars

\* the calls with their failures recorded in lastErrorCode
NextError ==
  \/ CheckedPushBack
  \/ CheckedPushFront
  \/ CheckedPopBack
  \/ CheckedPopFront
  \/ CheckedErase
  \/ CheckedInsert
  \/ CheckedReserve
  \/ Clear(FALSE)
  \/ ClearLastErrorCode

SpecError == Init /\ [][NextError]_vars

\* reserve followed by pushes and pops
NextReserve ==
  \/ ReserveAhead
  \/ PushBack(TRUE)
  \/ PushFront(TRUE)
  \/ PopBack(TRUE)
  \/ PopFront(TRUE)

SpecReserve == Init /\ [][NextReserve]_vars

\* the calls, and vectors made from initializer lists to compare the vector with
NextEqual ==
  \/ PushBack(FALSE)
  \/ PushFront(FALSE)
  \/ PopBack(FALSE)
  \/ PopFront(FALSE)
  \/ Erase(FALSE)
  \/ Insert(FALSE)
  \/ Reserve(FALSE)
  \/ Clear(FALSE)
  \/ ListToCompare

SpecEqual == Init /\ [][NextEqual]_vars

\* the vector used as a circular queue
NextQueue ==
  \/ QueueBegin
  \/ QueuePush
  \/ QueueErase

SpecQueue == Init /\ [][NextQueue]_vars

\* the vectors the three constructors can leave, each with the call that made
\* it: vector<T> v (inc), vector<T> v = { ... } and vector<T> v = w for a w
\* made from a list
Constructed ==
  LET listed == UNION {initializerList(il) : il \in Lists}
  IN {[v |-> Construct(inc), c |-> [Plain("construct") EXCEPT !.position = inc],
       failed |-> FALSE] : inc \in 0..MaxIncrement}
     \cup {[v |-> d.v, c |-> Plain("list"), failed |-> d.failed] : d \in listed}
     \cup UNION {{[v |-> d.v, c |-> Plain("copy"), failed |-> w.failed \/ d.failed] :
                    d \in copyConstruct(w.v)} : w \in listed}

\* a vector made by any of its constructors
InitGrow ==
  /\ \E m \in Constructed :
       /\ elements = m.v.elements
       /\ capacity = m.v.capacity
       /\ increment = m.v.increment
       /\ reserved = m.v.reserved
       /\ size = m.v.size
       /\ beginning = m.v.beginning
       /\ end = m.v.end
       /\ heap = m.v.heap
       /\ op = m.c
       /\ net = m.v.size
  /\ floor = 0
  /\ dst = NoDst
  /\ queue = NoQueue
  /\ lastErrorCode = "OK"
  /\ batchOk = TRUE
  /\ promise = 0
  /\ past = NoPast

\* a growth by increment may pass the bound by one slot
CanGrowPast == size < capacity \/ capacity + increment <= MaxCapacity + 1

\* push_back, push_front or insert on a vector that may be full
Grow ==
  /\ CanGrowPast
  /\ \E element \in Values :
       \/ \E x \in Runs(LAMBDA ok, fresh : push_back(Self, element, ok, fresh)) :
            /\ Becomes(x.r.v)
            /\ op' = Call("push_back", 0, element, x)
            /\ Counted(1, x.r.ret)
       \/ \E x \in Runs(LAMBDA ok, fresh : push_front(Self, element, ok, fresh)) :
            /\ Becomes(x.r.v)
            /\ op' = Call("push_front", 0, element, x)
            /\ Counted(1, x.r.ret)
       \/ \E position \in -1..size :
            \E x \in Runs(LAMBDA ok, fresh : insert(Self, position, element, ok, fresh)) :
              /\ Becomes(x.r.v)
              /\ op' = Call("insert", position, element, x)
              /\ Counted(1, x.r.ret)
  /\ dst' = NoDst
  /\ UNCHANGED <<floor, queue, lastErrorCode, batchOk, promise, past>>

\* vectors made by each constructor, grown by pushes and inserts and emptied by pops
NextGrow ==
  \/ Grow
  \/ PopBack(TRUE)
  \/ PopFront(TRUE)

SpecGrow == InitGrow /\ [][NextGrow]_vars

\* the object has not been destroyed
Alive == op.name # "~vector"

\* the vector goes out of scope
Destroy ==
  /\ Alive
  /\ Becomes(destructor(Self))
  /\ op' = Plain("~vector")
  /\ dst' = NoDst
  /\ UNCHANGED <<floor, net, queue, lastErrorCode, batchOk, promise, past>>

\* the caller's calls, until the vector is destroyed
NextHeap ==
  \/ Alive /\ PushBack(TRUE)
  \/ Alive /\ PushFront(TRUE)
  \/ Alive /\ PopBack(TRUE)
  \/ Alive /\ PopFront(TRUE)
  \/ Alive /\ Erase(TRUE)
  \/ Alive /\ Insert(TRUE)
  \/ Alive /\ Reserve(TRUE)
  \/ Alive /\ Clear(TRUE)
  \/ Destroy

SpecHeap == Init /\ [][NextHeap]_vars

\* a vector made by any of its constructors, by a user who has not called reserve
InitPlain ==
  /\ \E m \in Constructed :
       /\ elements = m.v.elements
       /\ capacity = m.v.capacity
       /\ increment = m.v.increment
       /\ reserved = m.v.reserved
       /\ size = m.v.size
       /\ beginning = m.v.beginning
       /\ end = m.v.end
       /\ heap = m.v.heap
       /\ op = m.c
       /\ net = m.v.size
       /\ past = [reserved |-> FALSE, failed |-> m.failed]
  /\ floor = 0
  /\ dst = NoDst
  /\ queue = NoQueue
  /\ lastErrorCode = "OK"
  /\ batchOk = TRUE
  /\ promise = 0

\* the calls that add (d = 1) or remove (d = -1) an element or change the
\* capacity (d = 0), each with every answer of the allocator
Calls ==
  (IF CanGrow
   THEN UNION {{[name |-> "push_back", d |-> 1, x |-> x] :
                  x \in Runs(LAMBDA ok, fresh : push_back(Self, element, ok, fresh))}
               \cup {[name |-> "push_front", d |-> 1, x |-> x] :
                  x \in Runs(LAMBDA ok, fresh : push_front(Self, element, ok, fresh))}
               \cup UNION {{[name |-> "insert", d |-> 1, x |-> x] :
                  x \in Runs(LAMBDA ok, fresh : insert(Self, position, element, ok, fresh))} :
                  position \in -1..size} : element \in Values}
   ELSE {})
  \cup {[name |-> "pop_back", d |-> -1, x |-> x] :
          x \in Runs(LAMBDA ok, fresh : pop_back(Self, ok, fresh))}
  \cup {[name |-> "pop_front", d |-> -1, x |-> x] :
          x \in Runs(LAMBDA ok, fresh : pop_front(Self, ok, fresh))}
  \cup UNION {{[name |-> "erase", d |-> -1, x |-> x] :
          x \in Runs(LAMBDA ok, fresh : erase(Self, position, ok, fresh))} :
          position \in -1..size}
  \cup UNION {{[name |-> "reserve", d |-> 0, x |-> x] :
          x \in Runs(LAMBDA ok, fresh : reserve(Self, newCapacity, ok, fresh))} :
          newCapacity \in 0..MaxCapacity}

\* any of those calls; past keeps whether it was a reserve that returned true
\* and whether its allocation failed
Use ==
  /\ \E c \in Calls :
       /\ Becomes(c.x.r.v)
       /\ op' = [Plain(c.name) EXCEPT !.ret = c.x.r.ret]
       /\ Counted(c.d, c.x.r.ret)
       /\ past' = [reserved |-> past.reserved \/ (c.name = "reserve" /\ c.x.r.ret),
                   failed |-> past.failed \/ ~c.x.a.ok]
  /\ dst' = NoDst
  /\ UNCHANGED <<floor, queue, lastErrorCode, batchOk, promise>>

\* clear (), after which no reserve counts any more
UseClear ==
  /\ Becomes(clear(Self))
  /\ op' = Plain("clear")
  /\ net' = 0
  /\ past' = [past EXCEPT !.reserved = FALSE]
  /\ dst' = NoDst
  /\ UNCHANGED <<floor, queue, lastErrorCode, batchOk, promise>>

\* vectors made by each constructor and used in any way
NextPlain ==
  \/ Use
  \/ UseClear

SpecPlain == InitPlain /\ [][NextPlain]_vars

\* ---------------------------------------------------------------------------
\* Properties
\* ---------------------------------------------------------------------------
\* s with x put before its element of index i (counted from 0)
InsertAt(s, i, x) == SubSeq(s, 1, i) \o <<x>> \o SubSeq(s, i + 1, Len(s))
\* s without its element of index i (counted from 0)
RemoveAt(s, i) == SubSeq(s, 1, i) \o SubSeq(s, i + 2, Len(s))

\* C1: a successful insert (i, v) at an interior index i (0 < i < size - 1)
\* turns the contents old[0..N-1] into old[0..i-1], v, old[i..N-1], whether it
\* reallocates or shifts in place and wherever the live window sits in the ring.
C1_InsertInterior ==
  [][(op'.name = "insert" /\ op'.ret /\ 0 < op'.position /\ op'.position < size - 1)
       => Contents(Self)' = InsertAt(Contents(Self), op'.position, op'.element)]_vars

\* C2: a successful erase (i) at a valid index i removes exactly the element
\* at i and keeps the others in order, on every path of erase.
C2_EraseRemovesIt ==
  [][(op'.name = "erase" /\ op'.ret /\ 0 <= op'.position /\ op'.position < size)
       => Contents(Self)' = RemoveAt(Contents(Self), op'.position)]_vars

\* C3: in every reachable state a begin () .. end () traversal yields
\* at (0), ..., at (size () - 1), in that order and nothing else.
C3_TraversalIsContents == Iterate(Self) = Contents(Self)

\* C4: after a successful reserve (n), until clear () or another reserve,
\* capacity () >= n after every push, pop, insert and erase.
C4_FloorKept == floor > 0 => capacity >= floor

\* C5: when no allocation fails, a copy-construction or assignment from the
\* vector in any reachable state gives a vector of the same size with the same
\* elements in the same order, one that compares == to the source.
C5_CopyEqualsSource ==
  (dst.made /\ ~dst.failed)
    => /\ dst.v.size = size
       /\ Contents(dst.v) = Contents(Self)
       /\ Equal(dst.v, Self)

\* C6: copy-construction from a vector with size () = 0, in any reachable state
\* of it, never fails: whatever the allocator does, it gives a vector with
\* size () = 0 that compares == to the source.
C6_CopyOfEmpty ==
  (dst.made /\ op.name = "copy" /\ size = 0)
    => /\ dst.v.size = 0
       /\ Equal(dst.v, Self)

\* C7: a push_back or push_front that has to grow the buffer and whose
\* allocation fails returns false and leaves size, capacity, the reservation
\* floor, beginning, end and every element as they were.
C7_FailedPushChangesNothing ==
  [][(op'.name \in {"push_back", "push_front"} /\ op'.asked # 0 /\ ~op'.ok)
       => (~op'.ret /\ Self' = Self)]_vars

\* a push_back on a full, non-empty vector whose growth the allocator refused
C7_Witness ==
  /\ op.name = "push_back" /\ op.asked # 0 /\ ~op.ok /\ ~op.ret
  /\ size > 0 /\ size = capacity

\* C8: erase (position) returns false only when position is not a valid index;
\* for every valid position it returns true and an element is removed, even if
\* the allocator fails during the call.
C8_EraseFailsOnlyOutOfRange ==
  [][op'.name = "erase"
       => IF 0 <= op'.position /\ op'.position < size
          THEN op'.ret /\ size' = size - 1
          ELSE ~op'.ret]_vars

\* C9: a pop_back, pop_front, erase, insert or reserve that returns false leaves
\* size, capacity, the reservation floor and the contents as they were.
C9_FailedCallChangesNothing ==
  [][(op'.name \in {"pop_back", "pop_front", "erase", "insert", "reserve"} /\ ~op'.ret)
       => /\ size' = size
          /\ capacity' = capacity
          /\ reserved' = reserved
          /\ Contents(Self)' = Contents(Self)]_vars

\* a reserve on a non-empty vector holding a floor that failed in the allocator
C9_Witness ==
  /\ op.name = "reserve" /\ ~op.ret /\ op.asked # 0 /\ ~op.ok
  /\ size > 0 /\ reserved > 0 /\ op.position # reserved

\* C10: a successful reserve (n) never reduces capacity: afterwards
\* capacity () >= n and capacity () >= the capacity before, the contents are
\* unchanged, and n is recorded as the shrink floor.
C10_ReserveGrowsAndRecords ==
  [][(op'.name = "reserve" /\ op'.ret)
       => /\ capacity' >= op'.position
          /\ capacity' >= capacity
          /\ Contents(Self)' = Contents(Self)
          /\ reserved' = op'.position]_vars

\* C11: after any sequence of push_back, push_front, pop_back, pop_front, insert
\* and erase calls, the allocator free to fail at any of them, size () is the
\* number of push and insert calls that returned true minus the number of pop
\* and erase calls that returned true.
C11_SizeIsNetCount == size = net

\* an erase that reallocated and returned true, after which elements remain
C11_Witness ==
  /\ op.name = "erase" /\ op.ret /\ op.asked # 0 /\ op.ok
  /\ size > 0 /\ net = size

\* C12: a copy-construction, an assignment or a construction from an
\* initializer list in which an allocation failed leaves the destination with
\* size () = 0 and capacity () = 0, so never with a part of the contents.
C12_FailedCopyIsEmpty ==
  (dst.made /\ dst.failed) => (dst.v.size = 0 /\ dst.v.capacity = 0)

\* C13: pop_back and pop_front on a non-empty vector return true and remove
\* exactly the last, respectively the first, element, the others keeping their
\* order, even when the shrinking reallocation that follows fails; the capacity
\* then stays as it was.
C13_PopRemovesEnd ==
  [][(op'.name \in {"pop_back", "pop_front"} /\ size > 0)
       => /\ op'.ret
          /\ Contents(Self)' = IF op'.name = "pop_back"
                               THEN SubSeq(Contents(Self), 1, size - 1)
                               ELSE Tail(Contents(Self))
          /\ (op'.asked # 0 /\ ~op'.ok) => capacity' = capacity]_vars

\* a pop_front whose shrinking reallocation failed, elements remaining
C13_Witness ==
  /\ op.name = "pop_front" /\ op.ret /\ op.asked # 0 /\ ~op.ok
  /\ size > 0 /\ capacity > size

\* C14: a vector constructed from an initializer list S, every allocation
\* succeeding, yields exactly the elements of S in order when traversed with
\* begin () / end (), for every S, the empty one included.
C14_ListRoundTrip ==
  (dst.made /\ op.name = "list" /\ ~dst.failed) => Iterate(dst.v) = dst.list

\* a vector constructed from a list of MaxCapacity values, not all the same
C14_Witness ==
  /\ dst.made /\ op.name = "list" /\ ~dst.failed
  /\ Len(dst.list) = MaxCapacity /\ dst.list[1] # dst.list[2]
  /\ dst.v.size = MaxCapacity

\* C15: from an empty vector, optionally after reserve (K + 1), the loop
\* push_back (i); if (size () > K) erase (0); with every allocation succeeding
\* keeps size () <= K after every iteration, and once K values were pushed the
\* contents are the last K pushed values in push order, at (0) the oldest.
C15_CircularQueue ==
  queue.pc = "push"
    => /\ size <= queue.K
       /\ Len(queue.pushed) >= queue.K
            => Contents(Self) = SubSeq(queue.pushed, Len(queue.pushed) - queue.K + 1,
                                       Len(queue.pushed))

\* the queue after more than K pushes, its window wrapped around the buffer
C15_Witness ==
  /\ queue.pc = "push" /\ Len(queue.pushed) > queue.K + 1
  /\ size = queue.K /\ queue.K > 1 /\ beginning > end

C17_ReservedPushesDoNotAllocate ==
  [][(op'.name \in {"push_back", "push_front"} /\ promise > 0 /\ size < promise)
       => (op'.ret /\ op'.asked = 0)]_vars

\* the indices (from 0) at which x occurs in the sequence s
Occurrences(s, x) == {i \in 0..(Len(s) - 1) : s[i + 1] = x}

\* C18: find (v) returns the smallest index i with at (i) = v, and -1 exactly
\* when no element equals v; the index is a logical one, wherever the live
\* window sits in the buffer.
C18_FindFirst ==
  \A x \in Values :
    LET occ == Occurrences(Contents(Self), x)
    IN IF occ = {} THEN find(Self, x) = -1
       ELSE /\ find(Self, x) \in occ
            /\ \A i \in occ : find(Self, x) <= i

\* a wrapped window in which a value is first found at an index other than 0,
\* in a slot before __beginning__, and occurs again later
C18_Witness ==
  /\ beginning > end /\ size > 2
  /\ \E x \in Values :
       /\ find(Self, x) > 0
       /\ CMod(beginning + find(Self, x), capacity) < beginning
       /\ Cardinality(Occurrences(Contents(Self), x)) > 1

\* C19: a == b is true iff a.size () = b.size () and a.at (i) = b.at (i) for
\* every i < size, whatever the capacity, increment, reservation and position
\* of the live window of either: vectors holding the same sequence after
\* different histories compare equal.
C19_EqualIsLogical ==
  dst.made
    => /\ Equal(Self, dst.v) <=> (Contents(Self) = Contents(dst.v))
       /\ Equal(dst.v, Self) <=> (Contents(dst.v) = Contents(Self))

\* the vector, its window wrapped, equal to one made from a list, with
\* another capacity, increment and reservation
C19_Witness ==
  /\ dst.made /\ Equal(Self, dst.v) /\ Equal(dst.v, Self)
  /\ size > 1 /\ beginning > end /\ Contents(Self)[1] # Contents(Self)[2]
  /\ capacity # dst.v.capacity /\ increment # dst.v.increment
  /\ reserved # dst.v.reserved

\* C20: clear () from any reachable state leaves size () = 0 and
\* capacity () = 0, releases the buffer and drops the reservation floor; a
\* second clear () leaves the same state.
C20_ClearEmpties ==
  op.name = "clear"
    => /\ size = 0 /\ capacity = 0 /\ elements = <<>> /\ reserved = 0
       /\ clear(Self) = Self

\* the vector right after a clear ()
C20_Witness ==
  /\ op.name = "clear" /\ size = 0 /\ capacity = 0 /\ reserved = 0
  /\ increment = MaxIncrement

\* C21: after a successful insert (position, v) at an end index (position = 0
\* or position = size - 1, size taken before the call) v is the element at
\* logical index position, as for any other valid position.
C21_InsertAtEnds ==
  [][(op'.name = "insert" /\ op'.ret /\ size > 0
        /\ (op'.position = 0 \/ op'.position = size - 1))
       => at(Self', op'.position) = op'.element]_vars

\* C22: insert (i, v) returns false and changes nothing whenever i < 0 or
\* i >= size (); insert (size (), v) is rejected and every insert into an
\* empty vector fails.
C22_InsertOutOfRange ==
  [][(op'.name = "insert" /\ (op'.position < 0 \/ op'.position >= size))
       => (~op'.ret /\ op'.asked = 0 /\ Self' = Self)]_vars

\* an insert at position size () on a vector with elements, refused
C22_Witness ==
  /\ op.name = "insert" /\ ~op.ret /\ op.asked = 0
  /\ size > 0 /\ op.position = size

\* C23: in every reachable state 0 <= size <= capacity; when size > 0,
\* 0 <= beginning < capacity, 0 <= end < capacity and
\* end = (beginning + size - 1) mod capacity; when capacity = 0, size = 0.
C23_RingInvariant ==
  /\ 0 <= size /\ size <= capacity
  /\ size > 0 => /\ 0 <= beginning /\ beginning < capacity
                 /\ 0 <= end /\ end < capacity
                 /\ end = (beginning + size - 1) % capacity
  /\ capacity = 0 => size = 0

\* a full buffer whose window wraps
C23_Witness ==
  /\ size = capacity /\ size > 2 /\ beginning > 1 /\ end = beginning - 1
  /\ op.name = "push_front"

\* C24: a successful push_back (v) turns the contents s into s followed by v
\* and a successful push_front (v) turns them into v followed by s, also when
\* the call first moves a wrapped window into a larger buffer and when the
\* vector was empty with beginning and end left by earlier pops.
C24_PushExtends ==
  [][(op'.name \in {"push_back", "push_front"} /\ op'.ret)
       => Contents(Self)' = IF op'.name = "push_back"
                            THEN Append(Contents(Self), op'.element)
                            ELSE <<op'.element>> \o Contents(Self)]_vars

\* a push_front that had to grow the buffer, the new element differing from
\* the one now behind it
C24_Witness ==
  /\ op.name = "push_front" /\ op.ret /\ op.asked # 0 /\ op.ok
  /\ size > 2 /\ at(Self, 0) = op.element /\ at(Self, 1) # op.element

\* C25: every successful capacity change that neither deletes nor leaves a
\* slot (the growth of a push, the shrink after a pop, reserve) keeps the
\* contents at (0 .. size - 1) exactly, whether or not the old window wrapped,
\* and leaves the window linear from slot 0: beginning = 0 and end = size - 1
\* (seen after the push or pop has moved its end of the window by one).
C25_ResizeKeepsContents ==
  [][(op'.name \in {"reserve", "push_back", "push_front", "pop_back", "pop_front"}
        /\ op'.ret /\ op'.asked # 0 /\ op'.ok)
       => /\ capacity' = op'.asked
          /\ Contents(Self)' =
               CASE op'.name = "reserve" -> Contents(Self)
                 [] op'.name = "push_back" -> Append(Contents(Self), op'.element)
                 [] op'.name = "push_front" -> <<op'.element>> \o Contents(Self)
                 [] op'.name = "pop_back" -> SubSeq(Contents(Self), 1, size - 1)
                 [] op'.name = "pop_front" -> Tail(Contents(Self))
          /\ IF op'.name = "push_front"
             THEN beginning' = capacity' - 1 /\ (size' > 1 => end' = size' - 2)
             ELSE beginning' = 0 /\ end' = size' - 1]_vars

\* a reserve that moved more than two elements into a larger buffer
C25_Witness ==
  /\ op.name = "reserve" /\ op.ret /\ op.asked # 0 /\ op.ok
  /\ size > 2 /\ capacity > size /\ at(Self, 0) # at(Self, 1)

C27_GrowsByIncrement ==
  [][/\ increment' = increment
     /\ (op.name = "construct" => increment = IF op.position < 1 THEN 1 ELSE op.position)
     /\ (op.name \in {"list", "copy"} => increment = 1)
     /\ (/\ op'.name \in {"push_back", "push_front", "insert"}
         /\ size = capacity
         /\ op'.asked # 0
         /\ op'.ok)
        => /\ op'.ret
           /\ op'.asked = capacity + increment
           /\ capacity' = capacity + increment
           /\ size' = size + 1]_vars

\* an insert between the elements of a full vector of three, made with
\* increment 2, has grown it to five
C27_Witness ==
  /\ op.name = "insert"
  /\ op.position = 1
  /\ op.ret
  /\ op.ok
  /\ op.asked = 5
  /\ increment = 2
  /\ capacity = 5
  /\ size = 4

C29_OneBuffer ==
  [][/\ Alive' => /\ heap'.hold = (IF capacity' = 0 THEN "NULL" ELSE "buffer")
                  /\ heap'.live = (IF capacity' = 0 THEN 0 ELSE 1)
     /\ ~heap'.twice
     /\ heap'.live \in {0, 1}
     /\ (Alive' /\ op'.asked # 0 /\ op'.ok)
          => (capacity' = op'.asked /\ heap'.live = 1 /\ heap'.hold = "buffer")
     /\ (Alive' /\ op'.asked # 0 /\ ~op'.ok)
          => (heap' = heap /\ elements' = elements /\ capacity' = capacity)
     /\ ~Alive' => (heap'.live = 0 /\ heap'.hold # "buffer")]_vars

\* a vector whose buffer was replaced by a larger one, then destroyed
C29_Witness ==
  /\ op.name = "~vector"
  /\ capacity = 3
  /\ size = 3
  /\ heap.hold = "deleted"
  /\ heap.live = 0

C31_AccessesInBounds ==
  /\ \A ev \in Touches(Self) \cup EqualTouches(Self, Self) : InBounds(ev)
  /\ dst.made => \A ev \in Touches(dst.v) \cup EqualTouches(Self, dst.v)
                             \cup EqualTouches(dst.v, Self) : InBounds(ev)

\* a window of three elements that wraps around the end of a buffer of four,
\* where an insert in place shifts through the last slot and slot 0, and a
\* vector of the same size to compare it with
C31_Witness ==
  /\ size = 3
  /\ capacity = 4
  /\ end < beginning
  /\ dst.made
  /\ dst.v.size = 3
  /\ {Slot(4, 3), Slot(4, 0)} \subseteq insertTouches(Self, 1, TRUE)
  /\ Slot(4, 3) \in EqualTouches(Self, dst.v)

\* C32: in every reachable state a cursor that starts at begin () and is
\* advanced by ++ until it equals end () gets there, after at most
\* capacity () increments.  It is checked on the vector and on the vector it
\* is compared with.
C32_TraversalEnds ==
  /\ increments(Self, beginning, capacity) \in 0..capacity
  /\ dst.made => increments(dst.v, dst.v.beginning, dst.v.capacity) \in 0..dst.v.capacity

\* a window of two elements that wraps around the end of a buffer of four: the
\* cursor goes from slot 3 through slot 0 to slot 1
C32_Witness ==
  /\ capacity = 4
  /\ size = 2
  /\ beginning = 3
  /\ end = 0
  /\ increments(Self, beginning, capacity) = 2

====
